---- MODULE Spec2Model ----
(***************************************************************************)
(* Orchestration core of miva_automation_ultimate.py: the progress ledger *)
(* (ProgressManager), the statistics tracker (Statistics), the retry      *)
(* controller (process_activity_with_retry), the batch scheduler          *)
(* (process_activities_parallel), the course processor (process_course)   *)
(* and the run coordinator (main).                                         *)
(*                                                                         *)
(* asyncio runs one coroutine at a time and switches only at an await, so *)
(* every action below is the code between two awaits of one coroutine.    *)
(***************************************************************************)
EXTENDS Integers, Sequences, FiniteSets, TLC

\* ------------------------------------------------------------------ bounds
NumCourses == 2      \* course ids the site can list
NumPages == 2        \* /mod/page/ activities of a course
NumRelative == 1     \* of them, those the page may also link by a relative href
MaxActs == 3         \* links discover_activities reads from one course page
MaxRuns == 2         \* process launches
parallel_tabs == 2   \* CONFIG["parallel_tabs"], scaled down
max_retries == 2     \* CONFIG["max_retries"], scaled down
MaxFaults == 1       \* errors of the ledger file's open() or write
MaxListed == 2       \* courses listed by discover_courses, over all runs

\* course ids as discover_courses extracts them from view.php?id=<n>
CourseIds == {100 + n : n \in 1..NumCourses}

\* ------------------------------------------------------------ small helpers
Range(s) == {s[i] : i \in DOMAIN s}

Min(a, b) == IF a <= b THEN a ELSE b

\* ------------------------------------------------------------------- links
\* An href of the course page: /mod/<mod>/view.php?id=<id>, written either
\* absolute (starting with http) or relative to the site root.
Hrefs ==
    {[abs |-> TRUE, mod |-> "page", id |-> i] : i \in 1..NumPages}
    \cup {[abs |-> FALSE, mod |-> "page", id |-> i] : i \in 1..Min(NumRelative, NumPages)}
    \cup {[abs |-> TRUE, mod |-> "quiz", id |-> 1]}

\* href if href.startswith("http") else CONFIG["base_url"] + href
ActivityUrl(href) == IF href.abs THEN href ELSE [href EXCEPT !.abs = TRUE]

\* any(pattern in href for pattern in CONFIG["skip_patterns"])
ShouldSkip(href) == href.mod \in {"quiz", "assign"}

\* first pattern of the list found in href, else "unknown"
ActivityType(href) ==
    IF href.mod \in {"page", "url", "quiz", "assign", "forum", "book"}
    THEN href.mod ELSE "unknown"

\* The links of a page in document order, each href once (seen_urls).
HrefOrder(h) == (IF h.mod = "page" THEN 0 ELSE 2 * NumPages)
                + 2 * (h.id - 1) + (IF h.abs THEN 0 ELSE 1)

RECURSIVE SortedSeq(_)
SortedSeq(S) ==
    IF S = {} THEN <<>>
    ELSE LET h == CHOOSE x \in S : \A y \in S : HrefOrder(x) <= HrefOrder(y)
         IN <<h>> \o SortedSeq(S \ {h})

PageListings == {SortedSeq(S) : S \in {T \in SUBSET Hrefs : Cardinality(T) <= MaxActs}}

\* ------------------------------------------------------------------ ledger
\* a default document that already carries a timestamp
EmptyDocStamped ==
    [last_run |-> "ts",
     courses |-> <<>>,
     global_stats |-> [total_completed |-> 0, total_skipped |-> 0, total_failed |-> 0]]

\* ProgressManager.load: the document of an absent file
EmptyDoc ==
    [last_run |-> "null",
     courses |-> <<>>,
     global_stats |-> [total_completed |-> 0, total_skipped |-> 0, total_failed |-> 0]]

\* the record get_course_progress creates
NewCourse ==
    [name |-> "", status |-> "not_started", completed_activities |-> <<>>,
     failed_activities |-> <<>>, total_activities |-> 0, last_activity_index |-> 0]

HasCourse(d, c) == c \in DOMAIN d.courses

\* ProgressManager.get_course_progress: the document after the call
get_course_progress(d, c) ==
    IF HasCourse(d, c) THEN d
    ELSE [d EXCEPT !.courses = (c :> NewCourse) @@ @]

\* ProgressManager.is_activity_completed: the value returned
is_activity_completed(d, c, u) ==
    u \in Range(get_course_progress(d, c).courses[c].completed_activities)

\* mark_activity_completed without its membership test
AddCompletedAlways(d, c, u) ==
    LET d1 == get_course_progress(d, c)
    IN [d1 EXCEPT !.courses[c].completed_activities = Append(@, u)]

\* a mark_activity_completed that records nothing
AddCompletedNothing(d, c, u) == get_course_progress(d, c)

\* a mark_activity_completed that also clears the course's failure records
AddCompletedClearing(d, c, u) ==
    LET d1 == get_course_progress(d, c)
        d2 == [d1 EXCEPT !.courses[c].failed_activities = <<>>]
    IN IF u \in Range(d2.courses[c].completed_activities) THEN d2
       ELSE [d2 EXCEPT !.courses[c].completed_activities = Append(@, u)]

\* ProgressManager.mark_activity_completed, up to the call of save
AddCompleted(d, c, u) ==
    LET d1 == get_course_progress(d, c)
    IN IF u \in Range(d1.courses[c].completed_activities) THEN d1
       ELSE [d1 EXCEPT !.courses[c].completed_activities = Append(@, u)]

\* a mark_activity_failed that writes back a list of its own instead of
\* appending to the list it finds
AddFailedOverwrite(d, c, u, e) ==
    LET d1 == get_course_progress(d, c)
    IN [d1 EXCEPT !.courses[c].failed_activities =
                      <<[url |-> u, error |-> e, timestamp |-> "ts"]>>]

\* ProgressManager.mark_activity_failed, up to the call of save
AddFailed(d, c, u, e) ==
    LET d1 == get_course_progress(d, c)
    IN [d1 EXCEPT !.courses[c].failed_activities =
                      Append(@, [url |-> u, error |-> e, timestamp |-> "ts"])]

\* ProgressManager.save, first line: data["last_run"] = now
Stamp(d) == [d EXCEPT !.last_run = "ts"]

\* ProgressManager.save: what open() and json.dump can do
SaveOutcomes == {"ok", "open_error", "write_error"}

\* a save() that leaves the file as it is
FileUntouched(f, d, so) == f

\* ProgressManager.save, the file afterwards: written in full, left as it
\* was when open() raises, or left truncated when the write raises
FileAfterSave(f, d, so) ==
    CASE so = "ok" -> [state |-> "ok", doc |-> Stamp(d)]
      [] so = "open_error" -> f
      [] OTHER -> [state |-> "corrupt", doc |-> EmptyDoc]

\* ProgressManager.get_course_completion_percent as the exact fraction
\* num / den of 100 (0 / 1 when total_activities = 0)
PctNum(d, c) ==
    LET r == get_course_progress(d, c).courses[c]
    IN IF r.total_activities = 0 THEN 0 ELSE 100 * Len(r.completed_activities)

PctDen(d, c) ==
    LET r == get_course_progress(d, c).courses[c]
    IN IF r.total_activities = 0 THEN 1 ELSE r.total_activities

\* a test that lets a course at exactly 100% through
PctAbove100(d, c) == PctNum(d, c) > 100 * PctDen(d, c)

\* "completion >= 100", as main, process_course and prioritize_courses test it
PctAtLeast100(d, c) == PctNum(d, c) >= 100 * PctDen(d, c)

PctAboveZero(d, c) == PctNum(d, c) > 0

\* ------------------------------------------------------------- prioritizer
\* ProgressManager.prioritize_courses: course["_priority"]
Priority(d, c) ==
    IF PctAtLeast100(d, c) THEN 3
    ELSE IF PctAboveZero(d, c) THEN 1
    ELSE 2

\* course["_completion"] as a fraction: 0 in the not-started branch
ComplNum(d, c) == IF Priority(d, c) = 2 THEN 0 ELSE PctNum(d, c)

ComplDen(d, c) == IF Priority(d, c) = 2 THEN 1 ELSE PctDen(d, c)

\* the key (c["_priority"], c["_completion"]): completion ascending
KeyLessAscending(d, a, b) ==
    \/ Priority(d, a) < Priority(d, b)
    \/ /\ Priority(d, a) = Priority(d, b)
       /\ ComplNum(d, a) * ComplDen(d, b) < ComplNum(d, b) * ComplDen(d, a)

\* key(a) < key(b) for key = (c["_priority"], -c["_completion"])
KeyLess(d, a, b) ==
    \/ Priority(d, a) < Priority(d, b)
    \/ /\ Priority(d, a) = Priority(d, b)
       /\ ComplNum(d, a) * ComplDen(d, b) > ComplNum(d, b) * ComplDen(d, a)

\* sorted(): stable, so an element goes behind every element that does not
\* compare greater than it
RECURSIVE InsertByKey(_, _, _)
InsertByKey(d, s, x) ==
    IF s = <<>> THEN <<x>>
    ELSE IF KeyLess(d, x, Head(s)) THEN <<x>> \o s
    ELSE <<Head(s)>> \o InsertByKey(d, Tail(s), x)

RECURSIVE SortedByKey(_, _)
SortedByKey(d, s) ==
    IF s = <<>> THEN <<>>
    ELSE InsertByKey(d, SortedByKey(d, SubSeq(s, 1, Len(s) - 1)), s[Len(s)])

prioritize_courses(d, cs) == SortedByKey(d, cs)

\* get_course_progress for every course of a list (the records the calls of
\* get_course_completion_percent leave behind)
RECURSIVE TouchAll(_, _)
TouchAll(d, cs) ==
    IF cs = <<>> THEN d
    ELSE TouchAll(get_course_progress(d, Head(cs)), Tail(cs))

\* -------------------------------------------------------------- statistics
\* Statistics.__init__ (the lists are kept by their lengths)
NewStats ==
    [courses_processed |-> 0, activities_completed |-> 0, activities_skipped |-> 0,
     activities_failed |-> 0, quizzes_found |-> 0, assignments_found |-> 0,
     errors |-> 0, completed_activities |-> 0]

\* Statistics.log_completed
log_completed(st) ==
    [st EXCEPT !.activities_completed = @ + 1, !.completed_activities = @ + 1]

\* Statistics.log_skipped
log_skipped(st, type) ==
    [st EXCEPT !.activities_skipped = @ + 1,
               !.quizzes_found = IF type = "quiz" THEN @ + 1 ELSE @,
               !.assignments_found = IF type = "assignment" THEN @ + 1 ELSE @]

\* Statistics.log_error
log_error(st) ==
    [st EXCEPT !.errors = @ + 1, !.activities_failed = @ + 1]

\* --------------------------------------------------------------- discovery
\* discover_activities: one descriptor per link read from the course page
discover_activities(d, c, listing) ==
    [k \in 1..Len(listing) |->
        [url |-> ActivityUrl(listing[k]),
         type |-> ActivityType(listing[k]),
         should_skip |-> ShouldSkip(listing[k]),
         is_completed |-> is_activity_completed(d, c, listing[k])]]

\* the filter without its test of should_skip
OutstandingAny(a) == ~a.is_completed

\* process_activities_parallel: the to_process list
Outstanding(a) == ~a.is_completed /\ ~a.should_skip

ToProcess(acts) == SelectSeq(acts, Outstanding)

\* process_course: len([a for a in activities if not a["should_skip"]])
NotSkipped(a) == ~a.should_skip

NonSkipCount(acts) == Len(SelectSeq(acts, NotSkipped))

\* the slice to_process[i:], which forgets the width of a batch
BatchSliceOpen(i, n) == (i + 1)..n

\* process_activities_parallel: the positions of to_process[i:i + parallel_tabs]
BatchSlice(i, n) == (i + 1)..Min(i + parallel_tabs, n)

\* ------------------------------------------------------------------- state
VARIABLES
    run,         \* process launches so far
    pc,          \* where main() stands
    file,        \* the ledger file miva_progress.json
    data,        \* progress.data
    stats,       \* the Statistics singleton
    courses,     \* main: the course list
    ci,          \* main: position of the per-course loop in courses
    activities,  \* process_course: the discovered descriptors
    batch_i,     \* process_activities_parallel: the loop variable i
    tasks,       \* one record per entry of to_process
    tabs,        \* pages opened for batches and not closed
    report,      \* calls of generate_report by this process
    faults,      \* errors the ledger file has raised so far
    listed       \* courses discover_courses has listed so far, over all runs

vars == <<run, pc, file, data, stats, courses, ci, activities, batch_i, tasks, tabs,
          report, faults, listed>>

env_vars == <<faults, listed>>

visit_vars == <<activities, batch_i, tasks>>

\* a coroutine process_activity_with_retry(page, activity, ...) that was not
\* started yet. attempt is the loop variable; tried, logged and records
\* count the calls of the work, of stats.log_completed and of
\* progress.mark_activity_failed the coroutine has made.
NewTask(a) ==
    [activity |-> a, phase |-> "pending", attempt |-> 0, result |-> "none",
     tried |-> 0, logged |-> 0, records |-> 0]

\* the errors a step's calls of save() add
Errors(so) == IF so = "ok" THEN 0 ELSE 1

AbsentFile == [state |-> "absent", doc |-> EmptyDoc]

Init ==
    /\ run = 1
    /\ pc = "launch"
    /\ file = AbsentFile
    /\ data = EmptyDoc
    /\ stats = NewStats
    /\ courses = <<>>
    /\ ci = 0
    /\ activities = <<>>
    /\ batch_i = 0
    /\ tasks = <<>>
    /\ tabs = 0
    /\ report = 0
    /\ faults = 0
    /\ listed = 0

\* the course the per-course loop stands at
Course == courses[ci]

\* ------------------------------------------------------------- main, start
\* module level: stats = Statistics(); progress = ProgressManager(...), whose
\* load() returns the defaults for an absent file and json.load(f) otherwise
\* (json.load raises on a truncated file and the import fails)
Load ==
    /\ pc = "launch"
    /\ stats' = NewStats
    /\ IF file.state = "corrupt"
       THEN pc' = "crashed" /\ data' = EmptyDoc
       ELSE pc' = "login" /\ data' = file.doc
    /\ UNCHANGED <<run, file, courses, ci, visit_vars, tabs, report, env_vars>>

\* main: goto(courses_url) and auth.check_logged_in
Login ==
    /\ pc = "login"
    /\ \E logged_in \in BOOLEAN :
          pc' = IF logged_in THEN "discover" ELSE "aborted"
    /\ UNCHANGED <<run, file, data, stats, courses, ci, visit_vars, tabs, report, env_vars>>

\* discover_courses and main's check of its result; urls_seen keeps one
\* entry per course
CourseLists ==
    {cs \in UNION {[1..n -> CourseIds] : n \in 0..NumCourses} :
        \A a, b \in DOMAIN cs : a # b => cs[a] # cs[b]}

\* a main that goes on with whatever discover_courses returned
AfterDiscoveryAlways(cs) == "recon"

\* main: "if not courses: ... return"
AfterDiscovery(cs) == IF cs = <<>> THEN "aborted" ELSE "recon"

DiscoverCourses ==
    /\ pc = "discover"
    /\ \E cs \in CourseLists :
          /\ listed + Len(cs) <= MaxListed
          /\ listed' = listed + Len(cs)
          /\ courses' = cs
          /\ pc' = AfterDiscovery(cs)
    /\ UNCHANGED <<run, file, data, stats, ci, visit_vars, tabs, report, faults>>

\* run_reconnaissance: every course whose page loads is looked up in the
\* ledger with get_course_progress
RECURSIVE TouchSome(_, _, _)
TouchSome(d, cs, scanned) ==
    IF cs = <<>> THEN d
    ELSE TouchSome(IF Head(cs) \in scanned THEN get_course_progress(d, Head(cs)) ELSE d,
                   Tail(cs), scanned)

Recon ==
    /\ pc = "recon"
    /\ \E scanned \in SUBSET Range(courses) :
          data' = TouchSome(data, courses, scanned)
    /\ pc' = "prioritize"
    /\ UNCHANGED <<run, file, stats, courses, ci, visit_vars, tabs, report, env_vars>>

\* main: courses = progress.prioritize_courses(courses) and the listing of
\* the processing order
Prioritize ==
    /\ pc = "prioritize"
    /\ courses' = prioritize_courses(data, courses)
    /\ data' = TouchAll(data, courses)
    /\ ci' = 1
    /\ pc' = "loop"
    /\ UNCHANGED <<run, file, stats, visit_vars, tabs, report, env_vars>>

\* ------------------------------------------------------- main, course loop
\* main: "if completion >= 100: continue"
LoopSkip ==
    /\ pc = "loop"
    /\ ci <= Len(courses)
    /\ PctAtLeast100(data, Course)
    /\ data' = get_course_progress(data, Course)
    /\ ci' = ci + 1
    /\ UNCHANGED <<run, pc, file, stats, courses, visit_vars, tabs, report, env_vars>>

\* main: the loop is over, generate_report()
LoopEnd ==
    /\ pc = "loop"
    /\ ci > Len(courses)
    /\ pc' = "done"
    /\ report' = report + 1
    /\ UNCHANGED <<run, file, data, stats, courses, ci, visit_vars, tabs, env_vars>>

\* process_course, "Update progress tracking": the document after discovery
\* and the two assignments to course_progress
TrackCourse(d, c, acts) ==
    [get_course_progress(d, c) EXCEPT
        !.courses[c].name = "name",
        !.courses[c].total_activities = NonSkipCount(acts)]

\* a process_course without its except clause: the error leaves main
AfterCourseErrorFatal == "fatal"

\* process_course: "except Exception as e" logs the error and returns, and
\* main goes on with its loop
AfterCourseError == "loop"

\* process_course from its first line to the call of
\* process_activities_parallel. context.new_page() stands before the try and
\* its error leaves main and asyncio.run, and the handler of __main__ calls
\* generate_report; an error of page.goto is caught by process_course;
\* discover_activities returns [] for a page it cannot read.
VisitCourse ==
    /\ pc = "loop"
    /\ ci <= Len(courses)
    /\ ~PctAtLeast100(data, Course)
    /\ \/ /\ pc' = "fatal"
          /\ report' = report + 1
          /\ UNCHANGED <<data, stats, ci, visit_vars>>
       \/ /\ stats' = log_error(stats)
          /\ ci' = ci + 1
          /\ pc' = AfterCourseError
          /\ UNCHANGED <<data, visit_vars, report>>
       \/ /\ ci' = ci + 1
          /\ UNCHANGED <<data, pc, stats, visit_vars, report>>
       \/ \E listing \in PageListings \ {<<>>} :
             LET acts == discover_activities(data, Course, listing)
             IN /\ activities' = acts
                /\ data' = TrackCourse(data, Course, acts)
                /\ tasks' = [k \in 1..Len(ToProcess(acts)) |-> NewTask(ToProcess(acts)[k])]
                /\ batch_i' = 0
                /\ pc' = IF ToProcess(acts) = <<>> THEN "course_status" ELSE "batch"
                /\ UNCHANGED <<stats, ci, report>>
    /\ UNCHANGED <<run, file, courses, tabs, env_vars>>

\* ---------------------------------------------------------- batch scheduler
Batch == BatchSlice(batch_i, Len(tasks))

\* process_activity_with_retry from its first line to the first await: it
\* returns True for a completed or skip-eligible activity and enters the
\* retry loop at attempt 1 otherwise
ShortCircuits(a) == a.is_completed \/ a.should_skip

Started(t) ==
    IF ShortCircuits(t.activity) THEN [t EXCEPT !.phase = "done", !.result = "true"]
    ELSE [t EXCEPT !.phase = "work", !.attempt = 1]

\* ... and what it logs on the way: the skipped quiz or assignment
StartedStats(st, a) ==
    IF a.is_completed \/ ~a.should_skip THEN st
    ELSE IF a.type = "quiz" THEN log_skipped(st, "quiz")
    ELSE IF a.type = "assign" THEN log_skipped(st, "assignment")
    ELSE st

\* the coroutines of a batch start in list order
RECURSIVE StartedAll(_, _, _)
StartedAll(st, ts, ks) ==
    IF ks = {} THEN st
    ELSE LET k == CHOOSE x \in ks : \A y \in ks : x <= y
         IN StartedAll(StartedStats(st, ts[k].activity), ts, ks \ {k})

\* process_activities_parallel: the pages of a batch and asyncio.gather. A
\* new_page() that raises ends the course visit in the except clause of
\* process_course, with the pages opened before it left open.
BatchOpen ==
    /\ pc = "batch"
    /\ \E opened \in 0..Cardinality(Batch) :
          /\ tabs' = tabs + opened
          /\ IF opened = Cardinality(Batch)
             THEN /\ tasks' = [k \in DOMAIN tasks |->
                                  IF k \in Batch THEN Started(tasks[k]) ELSE tasks[k]]
                  /\ stats' = StartedAll(stats, tasks, Batch)
                  /\ pc' = "gather"
                  /\ UNCHANGED <<ci, activities, batch_i>>
             ELSE /\ stats' = log_error(stats)
                  /\ ci' = ci + 1
                  /\ pc' = AfterCourseError
                  /\ activities' = <<>>
                  /\ batch_i' = 0
                  /\ tasks' = <<>>
    /\ UNCHANGED <<run, file, data, courses, report, env_vars>>

\* gather without return_exceptions=True: the first exception ends the wait
GatheredOrRaised ==
    \/ \A k \in Batch : tasks[k].phase = "done"
    \/ \E k \in Batch : tasks[k].result = "raised"

\* a wait that returns with the first coroutine that ends
GatheredFirst == \E k \in Batch : tasks[k].phase = "done"

\* pages closed without waiting for the coroutines
GatheredAny == TRUE

\* asyncio.gather(*tasks, return_exceptions=True) returns when every
\* coroutine of the batch has returned or raised
Gathered == \A k \in Batch : tasks[k].phase = "done"

\* process_activities_parallel: gather returned; close the pages; next i
BatchClose ==
    /\ pc = "gather"
    /\ Gathered
    /\ tabs' = tabs - Cardinality(Batch)
    /\ batch_i' = batch_i + parallel_tabs
    /\ pc' = IF batch_i + parallel_tabs < Len(tasks) THEN "batch" ELSE "course_status"
    /\ UNCHANGED <<run, file, data, stats, courses, ci, activities, tasks, report, env_vars>>

\* --------------------------------------------------------- retry controller
\* the activity of task k and what one call of the work can do: the
\* navigation raises, or the page is processed and the completion recorded
Activity(k) == tasks[k].activity

WorkOutcomes == {"nav_error", "ok"}

\* process_activity_with_retry: "if attempt < CONFIG[max_retries]"
MayRetry(t) == t.attempt < max_retries

\* process_page / process_url / process_forum after the awaits:
\* stats.log_completed, then progress.mark_activity_completed
WorkStats(w) == IF w = "ok" THEN log_completed(stats) ELSE stats

WorkData(w, k) ==
    IF w = "ok" THEN Stamp(AddCompleted(data, Course, Activity(k).url)) ELSE data

WorkFile(w, k, so) ==
    IF w = "ok" THEN FileAfterSave(file, AddCompleted(data, Course, Activity(k).url), so)
    ELSE file

\* the work raised: the navigation did, or save() did inside
\* mark_activity_completed
WorkRaised(w, so) == w = "nav_error" \/ so # "ok"

\* One attempt of task k, from the resumption of its last await in the work
\* to its next await or its return: the work's bookkeeping and, when the
\* work raised, the except clause of the retry loop.
\*   w   what the work does        so   save() inside mark_activity_completed
\*   so2 save() inside mark_activity_failed
TaskAttempt(k, w, so, so2) ==
    /\ pc = "gather"
    /\ k \in Batch
    /\ tasks[k].phase = "work"
    /\ w = "nav_error" => so = "ok"
    /\ ~(WorkRaised(w, so) /\ ~MayRetry(tasks[k])) => so2 = "ok"
    /\ LET t == [tasks[k] EXCEPT !.tried = @ + 1,
                                 !.logged = IF w = "ok" THEN @ + 1 ELSE @]
           err == "Page error"
       IN IF ~WorkRaised(w, so)
          THEN /\ tasks' = [tasks EXCEPT ![k] = [t EXCEPT !.phase = "done", !.result = "true"]]
               /\ stats' = WorkStats(w)
               /\ data' = WorkData(w, k)
               /\ file' = WorkFile(w, k, so)
          ELSE IF MayRetry(tasks[k])
          THEN /\ tasks' = [tasks EXCEPT ![k] = [t EXCEPT !.attempt = @ + 1]]
               /\ stats' = WorkStats(w)
               /\ data' = WorkData(w, k)
               /\ file' = WorkFile(w, k, so)
          ELSE /\ stats' = log_error(WorkStats(w))
               /\ data' = Stamp(AddFailed(WorkData(w, k), Course, Activity(k).url, err))
               /\ file' = FileAfterSave(WorkFile(w, k, so),
                                        AddFailed(WorkData(w, k), Course, Activity(k).url, err),
                                        so2)
               /\ tasks' = [tasks EXCEPT ![k] =
                              IF so2 = "ok"
                              THEN [t EXCEPT !.phase = "screenshot", !.records = @ + 1]
                              ELSE [t EXCEPT !.phase = "done", !.result = "raised",
                                             !.records = @ + 1]]
    /\ faults + Errors(so) + Errors(so2) <= MaxFaults
    /\ faults' = faults + Errors(so) + Errors(so2)
    /\ UNCHANGED <<run, pc, courses, ci, activities, batch_i, tabs, report, listed>>

\* process_activity_with_retry: take_screenshot returned, "return False"
TaskReturn(k) ==
    /\ pc = "gather"
    /\ k \in Batch
    /\ tasks[k].phase = "screenshot"
    /\ tasks' = [tasks EXCEPT ![k] = [@ EXCEPT !.phase = "done", !.result = "false"]]
    /\ UNCHANGED <<run, pc, file, data, stats, courses, ci, activities, batch_i, tabs,
                   report, env_vars>>

\* --------------------------------------------------- course status, restart
\* a status update with a plain else: "in_progress" whenever below 100%
StatusAfterEither(d, c) ==
    IF PctAtLeast100(d, c) THEN [d EXCEPT !.courses[c].status = "completed"]
    ELSE [d EXCEPT !.courses[c].status = "in_progress"]

\* a status update that never writes "completed"
StatusAfterInProgress(d, c) ==
    IF PctAboveZero(d, c) THEN [d EXCEPT !.courses[c].status = "in_progress"]
    ELSE d

\* process_course, "Update course status"
StatusAfter(d, c) ==
    IF PctAtLeast100(d, c) THEN [d EXCEPT !.courses[c].status = "completed"]
    ELSE IF PctAboveZero(d, c) THEN [d EXCEPT !.courses[c].status = "in_progress"]
    ELSE d

\* process_course from the return of process_activities_parallel to its end:
\* status, progress.save(), courses_processed; an error of save() is caught
\* by the except clause
CourseStatus(so) ==
    /\ pc = "course_status"
    /\ data' = Stamp(StatusAfter(data, Course))
    /\ file' = FileAfterSave(file, StatusAfter(data, Course), so)
    /\ stats' = IF so = "ok" THEN [stats EXCEPT !.courses_processed = @ + 1]
                ELSE log_error(stats)
    /\ ci' = ci + 1
    /\ pc' = "loop"
    /\ activities' = <<>>
    /\ batch_i' = 0
    /\ tasks' = <<>>
    /\ faults + Errors(so) <= MaxFaults
    /\ faults' = faults + Errors(so)
    /\ UNCHANGED <<run, courses, tabs, report, listed>>

\* __main__: KeyboardInterrupt leaves asyncio.run(main()), which cancels
\* main and every coroutine at the await it stands at (CancelledError is not
\* an Exception, so no except clause of the work or of the retry loop runs),
\* and the handler calls generate_report
Running == {"login", "discover", "recon", "prioritize", "loop", "batch", "gather",
            "course_status"}

Interrupt ==
    /\ pc \in Running
    /\ pc' = "interrupted"
    /\ report' = report + 1
    /\ UNCHANGED <<run, file, data, stats, courses, ci, visit_vars, tabs, env_vars>>

\* the process has ended and the command is run again
Restart ==
    /\ pc \in {"done", "aborted", "fatal", "crashed", "interrupted"}
    /\ run < MaxRuns
    /\ run' = run + 1
    /\ pc' = "launch"
    /\ data' = EmptyDoc
    /\ stats' = NewStats
    /\ courses' = <<>>
    /\ ci' = 0
    /\ activities' = <<>>
    /\ batch_i' = 0
    /\ tasks' = <<>>
    /\ tabs' = 0
    /\ report' = 0
    /\ UNCHANGED <<file, env_vars>>

Next ==
    \/ Load
    \/ Login
    \/ DiscoverCourses
    \/ Recon
    \/ Prioritize
    \/ LoopSkip
    \/ LoopEnd
    \/ VisitCourse
    \/ BatchOpen
    \/ \E k \in DOMAIN tasks, w \in WorkOutcomes, so, so2 \in SaveOutcomes :
          TaskAttempt(k, w, so, so2)
    \/ \E k \in DOMAIN tasks : TaskReturn(k)
    \/ BatchClose
    \/ \E so \in SaveOutcomes : CourseStatus(so)
    \/ Interrupt
    \/ Restart

Spec == Init /\ [][Next]_vars

\* ------------------------------------------------ prioritizer on its own
\* Ledgers a process can load: per course no record, or a record with the
\* first n page urls completed and any total the last visit has counted.
RECURSIVE FirstUrls(_)
FirstUrls(n) ==
    IF n = 0 THEN <<>>
    ELSE Append(FirstUrls(n - 1), [abs |-> TRUE, mod |-> "page", id |-> n])

LedgerRecords ==
    {[NewCourse EXCEPT !.name = "name", !.completed_activities = FirstUrls(n),
                       !.total_activities = t] :
        n \in 0..NumPages, t \in 0..MaxActs}

RECURSIVE StatusAll(_, _)
StatusAll(d, cs) ==
    IF cs = {} THEN d
    ELSE LET c == CHOOSE x \in cs : TRUE
         IN StatusAll(StatusAfter(d, c), cs \ {c})

Ledgers ==
    {StatusAll([EmptyDoc EXCEPT !.last_run = "ts", !.courses = f], DOMAIN f) :
        f \in UNION {[S -> LedgerRecords] : S \in SUBSET CourseIds}}

\* main stands before progress.prioritize_courses(courses) with a loaded
\* ledger and a discovered course list
InitPrioritize ==
    /\ run = 1
    /\ pc = "prioritize"
    /\ data \in Ledgers
    /\ file = [state |-> "ok", doc |-> data]
    /\ stats = NewStats
    /\ courses \in CourseLists \ {<<>>}
    /\ ci = 0
    /\ activities = <<>>
    /\ batch_i = 0
    /\ tasks = <<>>
    /\ tabs = 0
    /\ report = 0
    /\ faults = 0
    /\ listed = Len(courses)

SpecPrioritize == InitPrioritize /\ [][Prioritize]_vars

\* ------------------------------------------------ one course visit, fair
\* main stands in its loop in front of the only course of the list, with a
\* ledger that holds a record of the course. The event loop resumes every
\* coroutine whose await has returned or raised, so a step that can be taken
\* is taken in the end.
VisitLedgers(cs) == {d \in Ledgers : DOMAIN d.courses = Range(cs)}

InitVisit ==
    /\ run = 1
    /\ pc = "loop"
    /\ courses \in {cs \in CourseLists : Len(cs) = 1}
    /\ data \in VisitLedgers(courses)
    /\ file = [state |-> "ok", doc |-> data]
    /\ stats = NewStats
    /\ ci = 1
    /\ activities = <<>>
    /\ batch_i = 0
    /\ tasks = <<>>
    /\ tabs = 0
    /\ report = 0
    /\ faults = 0
    /\ listed = Len(courses)

NextVisit ==
    \/ LoopSkip
    \/ VisitCourse
    \/ BatchOpen
    \/ \E k \in DOMAIN tasks, w \in WorkOutcomes, so, so2 \in SaveOutcomes :
          TaskAttempt(k, w, so, so2)
    \/ \E k \in DOMAIN tasks : TaskReturn(k)
    \/ BatchClose
    \/ \E so \in SaveOutcomes : CourseStatus(so)

SpecVisit == InitVisit /\ [][NextVisit]_vars /\ WF_vars(NextVisit)

\* ================================================================== claims
NoDuplicates(s) == \A a, b \in DOMAIN s : a # b => s[a] # s[b]

Completed(d, c) == d.courses[c].completed_activities

Failed(d, c) == d.courses[c].failed_activities

\* C1: after any sequence of mark_activity_completed and mark_activity_failed
\* calls the completed_activities of every course, in memory and in the file,
\* holds each url at most once; and a step in which a task calls
\* mark_activity_completed (it has just logged the completion) for a url that
\* is already recorded leaves the course's completed_activities as it was.
C1_IdempotentCompletion ==
    /\ [](/\ \A c \in DOMAIN data.courses : NoDuplicates(Completed(data, c))
          /\ \A c \in DOMAIN file.doc.courses : NoDuplicates(Completed(file.doc, c)))
    /\ [][\A k \in DOMAIN tasks :
            (/\ k \in DOMAIN tasks'
             /\ tasks'[k].logged > tasks[k].logged
             /\ HasCourse(data, Course)
             /\ tasks[k].activity.url \in Range(Completed(data, Course)))
            => Completed(data', Course) = Completed(data, Course)]_vars

\* C1 witness: two tasks of one visit have completed the same url (the page
\* is linked by an absolute and by a relative href), so the second call found
\* the url recorded, and the url is in the list
C1_Witness ==
    \E j, k \in DOMAIN tasks :
        /\ j < k
        /\ tasks[j].activity.url = tasks[k].activity.url
        /\ tasks[j].result = "true" /\ tasks[k].result = "true"
        /\ tasks[j].activity.url \in Range(Completed(data, Course))

\* C2 (as claimed): get_course_completion_percent lies in [0, 100] for every
\* course of the ledger, in every reachable state
C2_CompletionBound ==
    \A c \in DOMAIN data.courses :
        PctNum(data, c) >= 0 /\ PctNum(data, c) <= 100 * PctDen(data, c)

\* C3 (as claimed): a task whose work failed on every attempt has made
\* exactly max_retries attempts, has appended exactly one failure record and
\* has returned False
C3_RetryCeiling ==
    \A k \in DOMAIN tasks :
        (tasks[k].phase = "done" /\ tasks[k].result # "true")
        => /\ tasks[k].tried = max_retries
           /\ tasks[k].records = 1
           /\ tasks[k].result = "false"

\* the batch an entry of to_process belongs to when the list is cut into
\* consecutive batches of parallel_tabs
BatchNo(k) == (k - 1) \div parallel_tabs

\* a task has ended: with success, or with its retries exhausted
Terminal(t) == t.phase = "done" /\ (t.result = "true" \/ t.tried = max_retries)

StartedTasks == {k \in DOMAIN tasks : tasks[k].phase # "pending"}

\* C4: the tasks started so far are a prefix of to_process that ends at a
\* batch boundary (a multiple of parallel_tabs, or the end of the list: the
\* batches have parallel_tabs entries and the last one the remainder), and no
\* task of a later batch is started before every task of every earlier batch
\* is terminal
C4_BatchBarrier ==
    /\ \E m \in 0..Len(tasks) :
          /\ StartedTasks = 1..m
          /\ m % parallel_tabs = 0 \/ m = Len(tasks)
    /\ \A j, k \in DOMAIN tasks :
          (BatchNo(j) < BatchNo(k) /\ k \in StartedTasks) => Terminal(tasks[j])

\* C4 witness: a task of the second batch is at work, the first batch was
\* full and the second is not
C4_Witness ==
    \E k \in DOMAIN tasks :
        /\ BatchNo(k) = 1
        /\ tasks[k].phase = "work"
        /\ Len(tasks) % parallel_tabs # 0
        /\ \A j \in 1..parallel_tabs : Terminal(tasks[j])

InFlight == {k \in DOMAIN tasks : tasks[k].phase \in {"work", "screenshot"}}

\* C5: at every moment at most parallel_tabs activities of the course are
\* started and not yet terminal
C5_ConcurrencyCeiling == Cardinality(InFlight) <= parallel_tabs

\* C5 witness: a course with more outstanding activities than tabs has
\* exactly parallel_tabs of them in flight
C5_Witness ==
    /\ Len(tasks) > parallel_tabs
    /\ Cardinality(InFlight) = parallel_tabs

\* C6 (as claimed): in a later run, when process_course discovers the
\* activities of a course, every activity whose url the loaded ledger holds
\* in the course's completed_activities is discovered with is_completed =
\* True and gets no task (no work attempt is made for it)
C6_ResumeSkipsCompleted ==
    [][(run > 1 /\ pc = "loop" /\ activities = <<>> /\ activities' # <<>>)
       => /\ \A k \in DOMAIN activities' :
                (/\ HasCourse(data, Course)
                 /\ activities'[k].url \in Range(Completed(data, Course)))
                => activities'[k].is_completed
          /\ \A k \in DOMAIN tasks' :
                ~(/\ HasCourse(data, Course)
                  /\ tasks'[k].activity.url \in Range(Completed(data, Course)))]_vars

\* the bucket of the claim: 1 for 0 < pct < 100, 2 for pct = 0, 3 for pct >= 100
Bucket(d, c) ==
    IF PctNum(d, c) > 0 /\ PctNum(d, c) < 100 * PctDen(d, c) THEN 1
    ELSE IF PctNum(d, c) = 0 THEN 2
    ELSE 3

PctGreater(d, a, b) == PctNum(d, a) * PctDen(d, b) > PctNum(d, b) * PctDen(d, a)

\* a must come before b: lower bucket, or same bucket and higher percent
Precedes(d, a, b) ==
    \/ Bucket(d, a) < Bucket(d, b)
    \/ Bucket(d, a) = Bucket(d, b) /\ PctGreater(d, a, b)

PositionIn(s, x) == CHOOSE p \in DOMAIN s : s[p] = x

\* out is in, stably sorted by (bucket ascending, percent descending)
StablySorted(d, in, out) ==
    /\ Len(out) = Len(in)
    /\ Range(out) = Range(in)
    /\ \A p, q \in DOMAIN out : p < q =>
          /\ ~Precedes(d, out[q], out[p])
          /\ ~Precedes(d, out[p], out[q])
             => PositionIn(in, out[p]) < PositionIn(in, out[q])

\* C7: the step of main that calls prioritize_courses replaces the course
\* list by the same courses stably sorted by (bucket ascending, completion
\* percent descending); in particular a list <<B, A>> with A in progress and
\* B at 0% becomes <<A, B>>
C7_Prioritize ==
    [][pc = "prioritize"
       => /\ StablySorted(data, courses, courses')
          /\ \A a, b \in CourseIds :
                (courses = <<b, a>> /\ Bucket(data, a) = 1 /\ PctNum(data, b) = 0)
                => courses' = <<a, b>>]_vars

\* C7 witness: after the step the list holds an in-progress course in front
\* of a course at 0% that has the lower id, and so was moved
C7_Witness ==
    /\ pc = "loop"
    /\ Len(courses) = 2
    /\ Bucket(data, courses[1]) = 1
    /\ PctNum(data, courses[2]) = 0
    /\ faults = 0 /\ ci = 1

Flagged(a) == a.should_skip \/ a.is_completed

\* C8: no task is created for an activity with should_skip or is_completed
\* set, so no work attempt, failure record or counter change comes from it
\* (every task, and with it every attempt, record and log, belongs to an
\* activity with neither flag, and there is one task per such activity); and
\* process_activity_with_retry called for such an activity returns True at
\* once, without an attempt, changing at most the skipped tally
C8_ShortCircuit ==
    /\ \A k \in DOMAIN tasks : ~Flagged(tasks[k].activity)
    /\ activities # <<>> =>
          Len(tasks) = Cardinality({k \in DOMAIN activities : ~Flagged(activities[k])})
    /\ \A k \in DOMAIN activities :
          Flagged(activities[k]) =>
             LET t == Started(NewTask(activities[k]))
                 st == StartedStats(stats, activities[k])
             IN /\ t.phase = "done" /\ t.result = "true"
                /\ t.tried = 0 /\ t.logged = 0 /\ t.records = 0
                /\ st.activities_completed = stats.activities_completed
                /\ st.activities_failed = stats.activities_failed
                /\ st.errors = stats.errors

\* C8 witness: a visit that discovered a quiz, a completed page and an
\* outstanding page has run its batches
C8_Witness ==
    /\ pc = "course_status"
    /\ \E k \in DOMAIN activities : activities[k].should_skip
    /\ \E k \in DOMAIN activities : activities[k].is_completed
    /\ \E k \in DOMAIN tasks : tasks[k].result = "true"

\* C9: every task that has ended did so on its own account, whatever its
\* siblings did: with success within its max_retries attempts and no failure
\* record, or after exactly max_retries attempts of its own with one record;
\* a task at work has made exactly the attempts its own loop has counted;
\* and when the scheduler has left a batch, every task of that batch has
\* ended (no sibling was cancelled or left behind)
C9_FailureIsolation ==
    /\ \A k \in DOMAIN tasks :
          /\ tasks[k].phase = "done" =>
                \/ /\ tasks[k].result = "true"
                   /\ tasks[k].tried \in 1..max_retries
                   /\ tasks[k].records = 0
                \/ /\ tasks[k].result \in {"false", "raised"}
                   /\ tasks[k].tried = max_retries
                   /\ tasks[k].records = 1
          /\ tasks[k].phase = "work" => tasks[k].tried = tasks[k].attempt - 1
          /\ tasks[k].phase = "screenshot" => tasks[k].tried = max_retries
    /\ pc \in {"batch", "gather"} =>
          \A k \in DOMAIN tasks : k <= batch_i => tasks[k].phase = "done"
    /\ pc = "course_status" => \A k \in DOMAIN tasks : tasks[k].phase = "done"

\* C9 witness: of two tasks of one batch one has failed for good and the
\* other has succeeded on its last attempt
C9_Witness ==
    \E j, k \in DOMAIN tasks :
        /\ j # k /\ BatchNo(j) = BatchNo(k)
        /\ tasks[j].phase = "done" /\ tasks[j].result \in {"false", "raised"}
        /\ tasks[k].result = "true" /\ tasks[k].tried = max_retries

\* C10: a step in which mark_activity_completed or mark_activity_failed
\* returns (the task returns True, or goes on to the screenshot) leaves the
\* ledger file holding the document in memory: the same course map, with
\* every completion and failure record, and the new last_run
C10_WriteThrough ==
    [][\A k \in DOMAIN tasks :
          (/\ k \in DOMAIN tasks'
           /\ \/ tasks[k].result # "true" /\ tasks'[k].result = "true"
              \/ tasks[k].phase = "work" /\ tasks'[k].phase = "screenshot")
          => /\ file'.state = "ok"
             /\ file'.doc.courses = data'.courses
             /\ file'.doc.last_run = "ts" /\ data'.last_run = "ts"]_vars

\* C10 witness: mark_activity_failed has just returned, after an earlier
\* completion, and the file holds both records
C10_Witness ==
    /\ \E k \in DOMAIN tasks : tasks[k].phase = "screenshot"
    /\ file.state = "ok"
    /\ file.doc.courses = data.courses
    /\ Completed(file.doc, Course) # <<>>
    /\ Failed(file.doc, Course) # <<>>

\* C11 (as claimed): when a visit of the first run (so nothing of the course
\* was completed before) in which every outstanding activity succeeded at
\* once reaches the status update, no task was made for a skip-eligible
\* activity, every other activity had its task, and the update leaves the
\* course at exactly 100% with status "completed"
C11_CleanVisit ==
    [][(/\ pc = "course_status" /\ pc' = "loop"
        /\ run = 1
        /\ tasks # <<>>
        /\ \A k \in DOMAIN activities : ~activities[k].is_completed
        /\ \A k \in DOMAIN tasks : tasks[k].result = "true" /\ tasks[k].tried = 1)
       => /\ \A k \in DOMAIN tasks : ~tasks[k].activity.should_skip
          /\ Len(tasks) = NonSkipCount(activities)
          /\ PctNum(data', Course) = 100 * PctDen(data', Course)
          /\ data'.courses[Course].status = "completed"]_vars

\* the step in which process_course updates the status of the course and
\* saves: it ends the visit
StatusStep == pc = "course_status" /\ pc' = "loop"

\* C12 (amended): the status update sets "completed" when the completion
\* percent is at least 100, "in_progress" when it is above 0 and below 100,
\* and leaves the status as it was when the percent is 0
C12_StatusUpdate ==
    [][StatusStep =>
         LET before == data.courses[Course].status
             after == data'.courses[Course].status
         IN /\ PctNum(data, Course) >= 100 * PctDen(data, Course)
                  => after = "completed"
            /\ (PctNum(data, Course) > 0
                /\ PctNum(data, Course) < 100 * PctDen(data, Course))
                  => after = "in_progress"
            /\ PctNum(data, Course) = 0 => after = before]_vars

\* C12 witness: the first course of the first run went through its status
\* update with every activity failed, and is still "not_started"
C12_Witness ==
    /\ run = 1 /\ pc = "loop" /\ ci = 2
    /\ stats.courses_processed = 1
    /\ Failed(data, courses[1]) # <<>>
    /\ Completed(data, courses[1]) = <<>>
    /\ data.courses[courses[1]].status = "not_started"

\* C12 (as claimed): the status update sets "completed" when the percent is
\* 100 and "in_progress" in every other case
C12_AsClaimed ==
    [][StatusStep =>
         data'.courses[Course].status =
            IF PctNum(data, Course) = 100 * PctDen(data, Course)
            THEN "completed" ELSE "in_progress"]_vars

\* C13 (as claimed): the step of main that runs run_reconnaissance leaves the
\* ledger as it was: the same course map, and with it every course's
\* completed_activities, failed_activities, total_activities and status
C13_ReconReadOnly ==
    [][pc = "recon" /\ pc' = "prioritize" => data'.courses = data.courses]_vars

\* C14: a step of the per-course loop at a course whose stored completion
\* percent is at least 100 only moves to the next course: nothing is
\* discovered, no task is made, no error is logged, no page is opened and
\* the ledger is as it was; at any other course the step is a step of
\* process_course (the interrupt apart, which ends the loop)
C14_SkipCompleted ==
    [][(pc = "loop" /\ ci <= Len(courses) /\ pc' # "interrupted") =>
         IF PctNum(data, Course) >= 100 * PctDen(data, Course)
         THEN /\ ci' = ci + 1
              /\ pc' = "loop"
              /\ data'.courses = data.courses
              /\ UNCHANGED <<stats, file, courses, activities, tasks, tabs, report>>
         ELSE VisitCourse]_vars

\* C14 witness: in a later run the loop has passed a course that the ledger
\* holds at 100% or more, with nothing logged, nothing opened and no visit
\* made in this run
C14_Witness ==
    /\ run > 1 /\ pc = "loop" /\ ci = 2
    /\ PctNum(data, courses[1]) >= 100 * PctDen(data, courses[1])
    /\ stats = NewStats /\ tabs = 0 /\ tasks = <<>>

\* C15 (as claimed): whenever main stands in the per-course loop in front of
\* a next course, no activity of the course before is in flight and every
\* page opened for its batches has been closed
C15_CoursesSequential ==
    (pc = "loop" /\ ci > 1 /\ ci <= Len(courses))
    => /\ \A k \in DOMAIN tasks : tasks[k].phase \notin {"work", "screenshot"}
       /\ tabs = 0

\* C16 (as claimed): a failed attempt uses up exactly one attempt of its
\* task (a task at work has made one attempt less than its loop counter
\* says), a task that ended without success has returned False after
\* max_retries attempts, and no exception ever leaves the retry controller
C16_FailureContained ==
    \A k \in DOMAIN tasks :
        /\ tasks[k].phase = "work" => tasks[k].tried = tasks[k].attempt - 1
        /\ tasks[k].tried <= max_retries
        /\ tasks[k].result # "raised"
        /\ (tasks[k].phase = "done" /\ tasks[k].result # "true")
              => tasks[k].result = "false" /\ tasks[k].tried = max_retries

\* C17: a step of the per-course loop in which the navigation to the course
\* fails (the course error is logged) or nothing is discovered abandons the
\* course: no task is made, the ledger is as it was, the error is counted
\* once, and main stands in its loop at the next course; from there a course
\* below 100% is handed to process_course whatever was logged before, and at
\* the end of the list main generates the report
C17_CourseErrorIsolated ==
    [][(pc = "loop" /\ pc' # "interrupted") =>
         /\ (ci <= Len(courses) /\ stats'.errors > stats.errors)
               => /\ pc' = "loop" /\ ci' = ci + 1
                  /\ stats'.errors = stats.errors + 1
                  /\ stats'.courses_processed = stats.courses_processed
                  /\ activities' = <<>> /\ tasks' = <<>>
                  /\ UNCHANGED <<data, file, courses, tabs, report>>
         /\ (ci <= Len(courses) /\ pc' = "loop" /\ stats' = stats)
               => /\ ci' = ci + 1
                  /\ activities' = <<>> /\ tasks' = <<>>
                  /\ data'.courses = data.courses
                  /\ UNCHANGED <<file, courses, tabs, report>>
         /\ (ci <= Len(courses) /\ stats.errors > 0
             /\ PctNum(data, Course) < 100 * PctDen(data, Course))
               => VisitCourse
         /\ ci > Len(courses) => pc' = "done" /\ report' = report + 1]_vars

\* C17 witness: the navigation to the first course of the list failed (the
\* course was never tracked and one error is logged) and the second course
\* is being processed
C17_Witness ==
    /\ run = 1 /\ ci = 2 /\ pc = "batch" /\ batch_i = 0
    /\ stats.errors = 1
    /\ data.courses[courses[1]].name = ""
    /\ tasks # <<>>

\* C18: main aborts exactly when the login check fails or discover_courses
\* returns no course, in the very step of the check; the step changes
\* nothing, and in the aborted process nothing was run: no course list, no
\* recon or prioritization record, no visit, no statistics, no report, the
\* ledger in memory and on file as it was loaded; the process only ends
C18_AbortImmediately ==
    /\ [](pc = "aborted" =>
             /\ courses = <<>> /\ ci = 0
             /\ activities = <<>> /\ tasks = <<>> /\ tabs = 0
             /\ stats = NewStats
             /\ report = 0
             /\ data = file.doc)
    /\ [][/\ (pc = "discover" /\ courses' = <<>> /\ pc' # "interrupted")
               => pc' = "aborted"
          /\ pc' = "aborted"
               => /\ pc \in {"login", "discover"}
                  /\ UNCHANGED <<data, file, stats, report, ci, activities, tasks, tabs>>
          /\ pc = "aborted" => pc' = "launch"]_vars

\* C18 witness: a later run that found a ledger with a completed activity
\* has aborted, and the ledger is as it was loaded
C18_Witness ==
    /\ pc = "aborted" /\ run > 1
    /\ file.state = "ok"
    /\ \E c \in DOMAIN data.courses : Completed(data, c) # <<>>
    /\ data = file.doc
    /\ report = 0

\* C19 (as claimed): once the interrupt has arrived a report has been
\* generated, nothing new is started (the process only ends), and the
\* process does not end while a task is in the middle of an attempt
C19_InterruptDrains ==
    /\ [](pc = "interrupted" => report = 1)
    /\ [][pc = "interrupted" =>
             /\ pc' = "launch"
             /\ \A k \in DOMAIN tasks : tasks[k].phase \notin {"work", "screenshot"}]_vars

\* C20 (as claimed): loading a ledger file that exists but cannot be parsed
\* gives the empty default document, and the process goes on to main
C20_LoadResets ==
    [][(pc = "launch" /\ file.state = "corrupt")
       => pc' = "login" /\ data' = EmptyDoc]_vars

\* the discovered descriptors of a kind: quizzes, assignments
OfType(acts, type) == {k \in DOMAIN acts : acts[k].type = type}

\* C21 (as claimed): when the batches of a visit are over, every quiz and
\* every assignment the visit discovered is in the statistics' quiz or
\* assignment list and is counted as skipped
C21_SkippedListed ==
    pc = "course_status"
    => /\ stats.quizzes_found >= Cardinality(OfType(activities, "quiz"))
       /\ stats.assignments_found >= Cardinality(OfType(activities, "assign"))
       /\ stats.activities_skipped >=
             Cardinality({k \in DOMAIN activities : activities[k].should_skip})

\* C22: the step in which a task returns True is the first attempt whose
\* work succeeded: it is attempt number k of the loop, 1 <= k <= max_retries,
\* the task has made exactly k attempts, no failure record was appended by
\* the task or in the step, and the url is in the course's
\* completed_activities; a task that has returned True keeps all of this
C22_FirstSuccess ==
    /\ [](\A k \in DOMAIN tasks :
             tasks[k].result = "true"
             => /\ tasks[k].phase = "done"
                /\ tasks[k].tried = tasks[k].attempt
                /\ tasks[k].tried \in 1..max_retries
                /\ tasks[k].records = 0
                /\ tasks[k].activity.url \in Range(Completed(data, Course)))
    /\ [][\A k \in DOMAIN tasks :
             (/\ k \in DOMAIN tasks'
              /\ tasks[k].result # "true" /\ tasks'[k].result = "true")
             => /\ tasks[k].phase = "work"
                /\ tasks'[k].tried = tasks[k].tried + 1
                /\ tasks'[k].tried = tasks[k].attempt
                /\ Failed(data', Course) = Failed(data, Course)
                /\ tasks'[k].activity.url \in Range(Completed(data', Course))]_vars

\* C22 witness: a task whose first attempt failed has returned True after
\* its second attempt, and its url is recorded
C22_Witness ==
    \E k \in DOMAIN tasks :
        /\ tasks[k].result = "true"
        /\ tasks[k].tried = 2
        /\ tasks[k].logged = 1
        /\ tasks[k].activity.url \in Range(Completed(data, Course))

\* the tasks of the batch the scheduler stands at that were started
CurrentBatch == {k \in DOMAIN tasks : k > batch_i /\ tasks[k].phase # "pending"}

\* C23 (as claimed): the step that builds a batch opens exactly one page per
\* task it starts, at a moment when every task started before has ended and
\* none of the new batch runs yet; while the batch runs no page is opened or
\* closed; the step that leaves the batch closes exactly the pages of the
\* batch, with every task of the batch ended; and a batch that is given up
\* while it is built leaves none of its pages open. So a page belongs to one
\* running task and every page of batch N is closed before a page of a later
\* batch is opened.
C23_BatchContexts ==
    [][/\ (pc = "batch" /\ pc' = "gather")
            => LET started == {k \in DOMAIN tasks : /\ tasks[k].phase = "pending"
                                                   /\ tasks'[k].phase # "pending"}
               IN /\ started # {}
                  /\ tabs' - tabs = Cardinality(started)
                  /\ CurrentBatch = {}
                  /\ \A k \in DOMAIN tasks : k <= batch_i => tasks[k].phase = "done"
                  /\ \A k \in DOMAIN tasks : k \notin started => tasks'[k] = tasks[k]
       /\ (pc = "batch" /\ pc' \notin {"batch", "gather"}) => tabs' = tabs
       /\ (pc = "gather" /\ pc' = "gather") => tabs' = tabs
       /\ (pc = "gather" /\ pc' \in {"batch", "course_status"})
            => /\ \A k \in CurrentBatch : tasks[k].phase = "done"
               /\ tabs' = tabs - Cardinality(CurrentBatch)
               /\ tasks' = tasks]_vars

\* C24: the step that constructs the progress store while the ledger file
\* is absent gives the document with last_run null, an empty course map and
\* global_stats of three zeros, and the process goes on to main
C24_AbsentDefaults ==
    [][(pc = "launch" /\ file.state = "absent")
       => /\ pc' = "login"
          /\ data'.last_run = "null"
          /\ data'.courses = <<>>
          /\ data'.global_stats =
                [total_completed |-> 0, total_skipped |-> 0, total_failed |-> 0]
          /\ DOMAIN data' = {"last_run", "courses", "global_stats"}
          /\ file' = file]_vars

\* C24 witness: a second launch has found no ledger file (the first run
\* never saved) and stands at the login check with the default document
C24_Witness ==
    /\ run > 1 /\ pc = "login"
    /\ file.state = "absent"
    /\ data.last_run = "null" /\ data.courses = <<>>
    /\ data.global_stats.total_completed = 0

\* every outstanding activity of the visit has its one task, and every task
\* has ended: with True and its url recorded as completed, or without
\* success and with its one failure record in the ledger
AllLaunchedAndEnded ==
    /\ Len(tasks) = Len(ToProcess(activities))
    /\ \A k \in DOMAIN tasks :
          /\ tasks[k].activity = ToProcess(activities)[k]
          /\ tasks[k].phase = "done"
          /\ \/ /\ tasks[k].result = "true"
                /\ tasks[k].records = 0
                /\ tasks[k].activity.url \in Range(Completed(data, Course))
             \/ /\ tasks[k].result \in {"false", "raised"}
                /\ tasks[k].records = 1
                /\ \E i \in DOMAIN Failed(data, Course) :
                      Failed(data, Course)[i].url = tasks[k].activity.url

BatchPhase == pc \in {"batch", "gather"}

\* C25 (amended): the batch phase of a visit always comes to an end, and
\* when the visit reaches the status update every outstanding activity was
\* launched exactly once and has ended, completed or with exactly one new
\* failure record
C25_VisitCompletes ==
    /\ BatchPhase ~> ~BatchPhase
    /\ [][StatusStep => AllLaunchedAndEnded]_vars

\* C25 witness: a visit with more outstanding activities than tabs stands
\* at its status update, one task completed and one failed for good
C25_Witness ==
    /\ pc = "course_status"
    /\ Len(tasks) > parallel_tabs
    /\ AllLaunchedAndEnded
    /\ \E k \in DOMAIN tasks : tasks[k].result = "true"
    /\ \E k \in DOMAIN tasks : tasks[k].result = "false"

\* C25 (as claimed): the batch phase always comes to an end, and however
\* the visit ends, with the status update or through a course error, every
\* outstanding activity was launched exactly once and has ended
C25_AsClaimed ==
    /\ BatchPhase ~> ~BatchPhase
    /\ [][((BatchPhase \/ pc = "course_status") /\ pc' = "loop")
          => AllLaunchedAndEnded]_vars

\* the failure records of the course for url u, and the tasks of the visit
\* that appended one for it
RecordsFor(u) == {i \in DOMAIN Failed(data, Course) : Failed(data, Course)[i].url = u}

FailedTasks(u) == {k \in DOMAIN tasks : tasks[k].activity.url = u /\ tasks[k].records = 1}

MarkedTasks == {k \in DOMAIN tasks : tasks[k].logged > 0}

\* C26: at every moment of a visit, whatever the order in which the tasks
\* of a batch took their steps, the ledger holds the url of every task that
\* called mark_activity_completed and one failure record per task that
\* called mark_activity_failed (nothing is lost); in the first run, where
\* the course had no record before the visit, completed_activities as a set
\* and the failure records as a multiset are exactly those, so they depend
\* on the outcomes of the tasks only
C26_OrderIndependent ==
    tasks # <<>> =>
       /\ \A k \in MarkedTasks : tasks[k].activity.url \in Range(Completed(data, Course))
       /\ \A k \in DOMAIN tasks :
             Cardinality(RecordsFor(tasks[k].activity.url))
                >= Cardinality(FailedTasks(tasks[k].activity.url))
       /\ run = 1 =>
             /\ Range(Completed(data, Course)) = {tasks[k].activity.url : k \in MarkedTasks}
             /\ \A i \in DOMAIN Failed(data, Course) :
                   Cardinality(RecordsFor(Failed(data, Course)[i].url))
                      = Cardinality(FailedTasks(Failed(data, Course)[i].url))

\* C26 witness: two tasks of one batch have failed for good, and the one
\* launched second appended its record first
C26_Witness ==
    /\ run = 1 /\ tasks # <<>>
    /\ Len(Failed(data, Course)) = 2
    /\ \E j, k \in DOMAIN tasks :
          /\ j < k /\ BatchNo(j) = BatchNo(k)
          /\ tasks[j].records = 1 /\ tasks[k].records = 1
          /\ Failed(data, Course)[1].url = tasks[k].activity.url
          /\ Failed(data, Course)[2].url = tasks[j].activity.url
          /\ tasks[j].activity.url # tasks[k].activity.url

\* C27: the status update leaves the course with status "completed" exactly
\* when its completion percent is at least 100, in memory and, when the
\* save succeeds, in the file
C27_CompletedIff ==
    [][StatusStep =>
         /\ data'.courses[Course].status = "completed"
               <=> PctNum(data', Course) >= 100 * PctDen(data', Course)
         /\ file'.state = "ok" /\ file' # file
               => (file'.doc.courses[Course].status = "completed"
                      <=> PctNum(file'.doc, Course) >= 100 * PctDen(file'.doc, Course))]_vars

\* C27 witness: in a later run a course was visited again, found with fewer
\* activities than it has completed urls, and went through its status
\* update as "completed"
C27_Witness ==
    /\ run > 1 /\ pc = "loop" /\ ci = 2
    /\ stats.courses_processed = 1
    /\ data.courses[courses[1]].status = "completed"
    /\ Len(Completed(data, courses[1])) > data.courses[courses[1]].total_activities

\* the failure records of the ledger, over the courses of a set
RECURSIVE FailureRecords(_, _)
FailureRecords(d, cs) ==
    IF cs = {} THEN 0
    ELSE LET c == CHOOSE x \in cs : TRUE
         IN Len(Failed(d, c)) + FailureRecords(d, cs \ {c})

\* C28 (as claimed): in the first run, which starts from an empty ledger,
\* the counter activities_failed equals the number of failure records in the
\* ledger at every moment
C28_FailedCounter ==
    (run = 1 /\ pc \in Running)
    => stats.activities_failed = FailureRecords(data, DOMAIN data.courses)

\* C29 (as claimed): a task that has returned True has called
\* stats.log_completed exactly once, and a task that has ended without
\* success has not called it at all
C29_CompletedCounter ==
    \A k \in DOMAIN tasks :
        tasks[k].phase = "done"
        => /\ tasks[k].result = "true" => tasks[k].logged = 1
           /\ tasks[k].result # "true" => tasks[k].logged = 0

\* s is a prefix of t: t keeps every element of s, in place and unchanged
IsPrefix(s, t) == Len(s) <= Len(t) /\ \A i \in DOMAIN s : t[i] = s[i]

\* C30: no step of a running process (the load at its start and its end
\* apart) removes a course from the course map, removes a url from a
\* course's completed_activities, or removes or rewrites a failure record:
\* the old failed_activities is a prefix of the new one
C30_LedgerGrows ==
    [][(pc # "launch" /\ pc' # "launch") =>
         \A c \in DOMAIN data.courses :
            /\ c \in DOMAIN data'.courses
            /\ Range(Completed(data, c)) \subseteq Range(Completed(data', c))
            /\ IsPrefix(Failed(data, c), Failed(data', c))]_vars

\* C30 witness: an activity with a failure record has later succeeded, and
\* the record is still in place next to the completion
C30_Witness ==
    /\ tasks # <<>>
    /\ \E k \in DOMAIN tasks :
          /\ tasks[k].result = "true"
          /\ tasks[k].activity.url \in Range(Completed(data, Course))
          /\ \E i \in DOMAIN Failed(data, Course) :
                Failed(data, Course)[i].url = tasks[k].activity.url

\* C31 (as claimed): whenever a course visit ends and main moves on to the
\* next course, through the status update, an empty listing or the except
\* clause of process_course (a new_page() that raises part-way through a
\* batch included), every page opened for the course's batches is closed
C31_ContextsReleased ==
    [][(pc \in {"loop", "batch", "gather", "course_status"}
          /\ pc' = "loop" /\ ci' = ci + 1)
       => tabs' = 0]_vars

====
